---- MODULE Spec2Model ----
(***************************************************************************)
(* Model of the typed service-handle layer of CppMicroServices             *)
(* (framework/include/cppmicroservices/ServiceReference.h).                *)
(*                                                                         *)
(* A handle is the pair (registration, bound interface id) held by         *)
(* ServiceReferenceBase; ServiceReference<S> adds the compile-time tag S.  *)
(* ServiceReferenceBase itself, the interface-id resolver and the registry *)
(* are collaborators of the header and are modelled at their interface.    *)
(***************************************************************************)
EXTENDS Naturals, FiniteSets

VARIABLES regs,      \* the registry's entries: state, declared ids, service object
          slots,     \* the ServiceReference<S> objects of the program
          everInvalid, \* history: the object of a variable has been Invalid,
                       \* that is invalid other than by default construction
          published, \* the handle thread T1 handed to the other threads
          pc,        \* per converting thread: position in the converting constructor
          local,     \* per converting thread: the handle under construction
          want,      \* per converting thread: interfaceId of the constructor
          obs        \* per converting thread: what IsConvertibleTo returned

vars == <<regs, slots, everInvalid, published, pc, local, want, obs>>

----------------------------------------------------------------------------
(* Bounds *)

MaxEntries == 2     \* registrations the registry ever creates
NumThreads == 2     \* threads converting the published handle

Entries == 1..MaxEntries

\* the ServiceReference variables of the program, the service objects, and
\* the threads that convert the handle thread T1 publishes
Slots == {"r1", "r2"}
Objs == {"svc1", "svc2"}
\* the service objects that modules register; svc2 is never registered
Registrable == {"svc1"}
Threads == {"T2", "T3"}

----------------------------------------------------------------------------
(* Interface ids and the compile-time tags *)

Void == "Void"
Tags == {"Foo", "Bar", "Baz", Void}
TypedTags == Tags \ {Void}
InterfaceIds == {"IFoo", "IBar", "IBaz"}
NoId == ""
NullReg == 0

\* us_service_interface_iid<S>(): a constant string per interface type
InterfaceId(S) ==
    CASE S = "Foo" -> "IFoo"
      [] S = "Bar" -> "IBar"
      [] S = "Baz" -> "IBaz"
      [] OTHER -> NoId

\* the order in which a registering module lists interface ids
IdOrder(id) ==
    CASE id = "IFoo" -> 1
      [] id = "IBar" -> 2
      [] OTHER -> 3

\* the sets of interface ids a service may be registered under
IfaceSets == {{"IFoo", "IBar"}, {"IBaz"}}

----------------------------------------------------------------------------
(* ServiceReferenceBase *)

\* ServiceReferenceBase(): no registration, empty interface id
InvalidHandle == [reg |-> NullReg, iid |-> NoId]

\* the handle the registry creates for entry e, bound to one of its ids
MakeHandle(e, id) == [reg |-> e, iid |-> id]

GetInterfaceId(h) == h.iid

SetInterfaceId(h, id) == [h EXCEPT !.iid = id]

\* true iff the related registration declares id; the declared ids of a
\* registration never change, also after it is unregistered
IsConvertibleTo(h, id) ==
    /\ h.reg # NullReg
    /\ id \in regs[h.reg].ifaces

\* operator=(nullptr)
AssignNullptr(h) == InvalidHandle

\* operator=(ServiceReferenceBase const&)
AssignBase(h, other) == other

\* operator bool, faulty variant: valid only while the registration is live
IsValidWhileLive(h) ==
    /\ h.reg # NullReg
    /\ regs[h.reg].state = "live"

\* operator bool: true iff the handle relates to a registration
IsValid(h) == h.reg # NullReg

\* operator==: same registration
Equals(a, b) == a.reg = b.reg

\* Hash(): hash of the registration
Hash(h) == h.reg

----------------------------------------------------------------------------
(* ServiceReference<S> *)

\* the ServiceReferenceBase part of a ServiceReference<S> object
Base(t) == [reg |-> t.reg, iid |-> t.iid]

\* a ServiceReference<S> object whose base part is h
Typed(S, h) == [tag |-> S, reg |-> h.reg, iid |-> h.iid]

\* ServiceReference<S>()
DefaultCtor(S) == Typed(S, InvalidHandle)

\* GetInterfaceId() != interfaceId
CtorNeedsCheck(h, id) == GetInterfaceId(h) # id

\* faulty variant: the test of IsConvertibleTo is inverted
CtorFinishInverted(h, id, ok) ==
    IF ~ok THEN SetInterfaceId(h, id) ELSE AssignNullptr(h)

\* faulty variant: a failed conversion clears the id but keeps the registration
CtorFinishKeepsReg(h, id, ok) ==
    IF ok THEN SetInterfaceId(h, id) ELSE SetInterfaceId(h, NoId)

\* the two branches under "if (GetInterfaceId() != interfaceId)"
CtorFinish(h, id, ok) ==
    IF ok THEN SetInterfaceId(h, id) ELSE AssignNullptr(h)

\* faulty variant: rebinds without asking IsConvertibleTo
ConvertTypedNoCheck(S, h) ==
    IF CtorNeedsCheck(h, InterfaceId(S))
    THEN SetInterfaceId(h, InterfaceId(S))
    ELSE h

\* ServiceReference<S>(ServiceReferenceBase const&), S not void
ConvertTyped(S, h) ==
    IF CtorNeedsCheck(h, InterfaceId(S))
    THEN CtorFinish(h, InterfaceId(S), IsConvertibleTo(h, InterfaceId(S)))
    ELSE h

\* faulty variant: the void specialization validates like the primary template
ConvertVoidValidating(h) ==
    IF CtorNeedsCheck(h, InterfaceId(Void))
    THEN CtorFinish(h, InterfaceId(Void), IsConvertibleTo(h, InterfaceId(Void)))
    ELSE h

\* ServiceReference<void>(ServiceReferenceBase const&)
ConvertVoid(h) == h

\* the converting constructor of ServiceReference<S>, for any S
Reference(S, h) ==
    IF S = Void THEN Typed(Void, ConvertVoid(h)) ELSE Typed(S, ConvertTyped(S, h))

\* faulty variant: copy assignment rebinds the id to the target's interface
CopyAssignRebinding(t, other) ==
    Typed(t.tag, SetInterfaceId(Base(other), InterfaceId(t.tag)))

\* ServiceReference& operator=(ServiceReference const&) = default
CopyAssign(t, other) == Typed(t.tag, Base(other))

\* using ServiceReferenceBase::operator=, with a ServiceReferenceBase argument
TypedAssignBase(t, h) == Typed(t.tag, AssignBase(Base(t), h))

\* using ServiceReferenceBase::operator=, with nullptr
TypedAssignNull(t) == Typed(t.tag, AssignNullptr(Base(t)))

\* faulty variant: typed handles of different interface views are unequal
TypedEqualsSameView(a, b) == Equals(Base(a), Base(b)) /\ a.iid = b.iid

\* using ServiceReferenceBase::operator==
TypedEquals(a, b) == Equals(Base(a), Base(b))

\* using ServiceReferenceBase::Hash
TypedHash(t) == Hash(Base(t))

\* faulty variant: the hash depends on the bound interface id
StdHashWithId(t) == TypedHash(t) + (IF t.iid = "IBar" THEN MaxEntries + 1 ELSE 0)

\* std::hash<ServiceReference<S>>::operator()
StdHash(t) == TypedHash(t)

\* validity of a ServiceReference<S> object in boolean context
TypedValid(t) == IsValid(Base(t))

----------------------------------------------------------------------------
(* Reverse lookup *)

\* the live registrations of a service object
LiveEntriesOf(obj) == {e \in Entries : regs[e].state = "live" /\ regs[e].obj = obj}

\* the id a registration's own handle is bound to: the first declared one
PrimaryId(ifaces) ==
    CHOOSE id \in ifaces :
        \A other \in ifaces : IdOrder(id) <= IdOrder(other)

\* the handle the registry associates with a service object: that of its most
\* recent live registration, bound to its primary id
Tracked(obj) ==
    IF LiveEntriesOf(obj) = {}
    THEN InvalidHandle
    ELSE LET e == CHOOSE x \in LiveEntriesOf(obj) : \A y \in LiveEntriesOf(obj) : y <= x
         IN  MakeHandle(e, PrimaryId(regs[e].ifaces))

\* ServiceReferenceFromService(std::shared_ptr<void> const&): the handle the
\* registry associated with the object, invalid when the object is not tracked
ServiceReferenceFromServiceU(obj) == Typed(Void, Tracked(obj))

\* faulty variant: the lookup result is retagged without the conversion
ServiceReferenceFromServiceUnconverted(obj, U) ==
    Typed(U, Base(ServiceReferenceFromServiceU(obj)))

\* ServiceReferenceFromService<T, U>(std::shared_ptr<T> const&)
ServiceReferenceFromService(obj, U) ==
    Reference(U, Base(ServiceReferenceFromServiceU(obj)))


----------------------------------------------------------------------------
(* Initial state: an empty registry and no ServiceReference object yet *)

FreeEntry == [state |-> "free", ifaces |-> {}, obj |-> ""]

\* a variable whose ServiceReference object is out of scope
NoObject == [tag |-> "none", reg |-> NullReg, iid |-> NoId]

Exists(t) == t.tag # "none"

Init ==
    /\ regs = [e \in Entries |-> FreeEntry]
    /\ slots = [i \in Slots |-> NoObject]
    /\ everInvalid = [i \in Slots |-> FALSE]
    /\ published = InvalidHandle
    /\ pc = [t \in Threads |-> "idle"]
    /\ local = [t \in Threads |-> InvalidHandle]
    /\ want = [t \in Threads |-> NoId]
    /\ obs = [t \in Threads |-> "none"]

threadVars == <<published, pc, local, want, obs>>

\* the variable i holds the object t from now on
Store(i, t) ==
    /\ slots' = [slots EXCEPT ![i] = t]
    /\ everInvalid' = [everInvalid EXCEPT ![i] =
                          Exists(t) /\ ((Exists(slots[i]) /\ @) \/ ~TypedValid(t))]

----------------------------------------------------------------------------
(* The registry *)

\* a service object is registered under the ids ifaces: the registry creates
\* the next registration
Register(ifaces, obj) ==
    /\ \E e \in Entries :
        /\ regs[e].state = "free"
        /\ \A f \in Entries : f < e => regs[f].state # "free"
        /\ regs' = [regs EXCEPT ![e] = [state |-> "live", ifaces |-> ifaces,
                                        obj |-> obj]]
    /\ UNCHANGED <<slots, everInvalid, threadVars>>

\* the registration e is unregistered: only its liveness changes
Unregister(e) ==
    /\ regs[e].state = "live"
    /\ regs' = [regs EXCEPT ![e].state = "unregistered"]
    /\ UNCHANGED <<slots, everInvalid, threadVars>>

\* the registry hands out a handle of the live registration e, bound to one
\* of its declared ids
GetServiceReference(i, e, id) ==
    /\ ~Exists(slots[i])
    /\ regs[e].state = "live"
    /\ id \in regs[e].ifaces
    /\ Store(i, Typed(Void, MakeHandle(e, id)))
    /\ UNCHANGED <<regs, threadVars>>

----------------------------------------------------------------------------
(* Operations on ServiceReference<S> objects *)

\* ServiceReference<S> r; the object is Unbound, not yet Invalid
DefaultConstruct(i, S) ==
    /\ ~Exists(slots[i])
    /\ slots' = [slots EXCEPT ![i] = DefaultCtor(S)]
    /\ everInvalid' = [everInvalid EXCEPT ![i] = FALSE]
    /\ UNCHANGED <<regs, threadVars>>

\* ServiceReference<S> r(other); with other a ServiceReference<S>
CopyConstruct(i, j) ==
    /\ ~Exists(slots[i])
    /\ Exists(slots[j])
    /\ Store(i, slots[j])
    /\ UNCHANGED <<regs, threadVars>>

\* ServiceReference<S> r(base); with base any handle
ConvertConstruct(i, j, S) ==
    /\ ~Exists(slots[i])
    /\ Exists(slots[j])
    /\ Store(i, Reference(S, Base(slots[j])))
    /\ UNCHANGED <<regs, threadVars>>

\* r = other; with other a ServiceReference of the same S
CopyAssignment(i, j) ==
    /\ i # j
    /\ Exists(slots[i])
    /\ slots[i].tag = slots[j].tag
    /\ Store(i, CopyAssign(slots[i], slots[j]))
    /\ UNCHANGED <<regs, threadVars>>

\* r = base; with base a ServiceReferenceBase or a ServiceReference of another S
BaseAssignment(i, j) ==
    /\ Exists(slots[i])
    /\ Exists(slots[j])
    /\ slots[i].tag # slots[j].tag
    /\ Store(i, TypedAssignBase(slots[i], Base(slots[j])))
    /\ UNCHANGED <<regs, threadVars>>

\* r = nullptr;
NullAssignment(i) ==
    /\ Exists(slots[i])
    /\ Store(i, TypedAssignNull(slots[i]))
    /\ UNCHANGED <<regs, threadVars>>

\* auto r = ServiceReferenceFromService(obj); the untyped overload
LookupUntyped(i, obj) ==
    /\ ~Exists(slots[i])
    /\ Store(i, ServiceReferenceFromServiceU(obj))
    /\ UNCHANGED <<regs, threadVars>>

\* auto r = ServiceReferenceFromService<T, U>(obj);
LookupTyped(i, obj, U) ==
    /\ ~Exists(slots[i])
    /\ Store(i, ServiceReferenceFromService(obj, U))
    /\ UNCHANGED <<regs, threadVars>>

\* the ServiceReference object of a variable goes out of scope
Destroy(i) ==
    /\ Exists(slots[i])
    /\ Store(i, NoObject)
    /\ UNCHANGED <<regs, threadVars>>

Next ==
    \/ \E ifaces \in IfaceSets, obj \in Registrable : Register(ifaces, obj)
    \/ \E e \in Entries : Unregister(e)
    \/ \E i \in Slots, e \in Entries, id \in InterfaceIds : GetServiceReference(i, e, id)
    \/ \E i \in Slots, S \in Tags : DefaultConstruct(i, S)
    \/ \E i, j \in Slots : CopyConstruct(i, j)
    \/ \E i, j \in Slots, S \in Tags : ConvertConstruct(i, j, S)
    \/ \E i, j \in Slots : CopyAssignment(i, j)
    \/ \E i, j \in Slots : BaseAssignment(i, j)
    \/ \E i \in Slots : NullAssignment(i)
    \/ \E i \in Slots, obj \in Objs : LookupUntyped(i, obj)
    \/ \E i \in Slots, obj \in Objs, U \in Tags : LookupTyped(i, obj, U)
    \/ \E i \in Slots : Destroy(i)

Spec == Init /\ [][Next]_vars

----------------------------------------------------------------------------
(* Threads running the converting constructor on a published handle *)

\* thread T1 publishes a handle of a registration it registered
Publish(e, id) ==
    /\ published = InvalidHandle
    /\ regs[e].state = "live"
    /\ id \in regs[e].ifaces
    /\ published' = MakeHandle(e, id)
    /\ UNCHANGED <<regs, slots, everInvalid, pc, local, want, obs>>

\* : ServiceReferenceBase(base), and interfaceId(us_service_interface_iid<S>())
CtorCopyBase(t, S) ==
    /\ pc[t] = "idle"
    /\ published # InvalidHandle
    /\ local' = [local EXCEPT ![t] = published]
    /\ want' = [want EXCEPT ![t] = InterfaceId(S)]
    /\ pc' = [pc EXCEPT ![t] = "compare"]
    /\ UNCHANGED <<regs, slots, everInvalid, published, obs>>

\* if (GetInterfaceId() != interfaceId)
CtorCompare(t) ==
    /\ pc[t] = "compare"
    /\ pc' = [pc EXCEPT ![t] =
                 IF CtorNeedsCheck(local[t], want[t]) THEN "check" ELSE "done"]
    /\ UNCHANGED <<regs, slots, everInvalid, published, local, want, obs>>

\* if (this->IsConvertibleTo(interfaceId))
CtorCheck(t) ==
    /\ pc[t] = "check"
    /\ obs' = [obs EXCEPT ![t] =
                  IF IsConvertibleTo(local[t], want[t]) THEN "yes" ELSE "no"]
    /\ pc' = [pc EXCEPT ![t] = "finish"]
    /\ UNCHANGED <<regs, slots, everInvalid, published, local, want>>

\* this->SetInterfaceId(interfaceId) or this->operator=(nullptr)
CtorApply(t) ==
    /\ pc[t] = "finish"
    /\ local' = [local EXCEPT ![t] = CtorFinish(local[t], want[t], obs[t] = "yes")]
    /\ pc' = [pc EXCEPT ![t] = "done"]
    /\ UNCHANGED <<regs, slots, everInvalid, published, want, obs>>

\* the constructed handle goes out of scope
CtorRelease(t) ==
    /\ pc[t] = "done"
    /\ pc' = [pc EXCEPT ![t] = "idle"]
    /\ local' = [local EXCEPT ![t] = InvalidHandle]
    /\ want' = [want EXCEPT ![t] = NoId]
    /\ obs' = [obs EXCEPT ![t] = "none"]
    /\ UNCHANGED <<regs, slots, everInvalid, published>>

NextConc ==
    \/ \E ifaces \in IfaceSets, obj \in Registrable : Register(ifaces, obj)
    \/ \E e \in Entries : Unregister(e)
    \/ \E e \in Entries, id \in InterfaceIds : Publish(e, id)
    \/ \E t \in Threads, S \in TypedTags : CtorCopyBase(t, S)
    \/ \E t \in Threads : CtorCompare(t)
    \/ \E t \in Threads : CtorCheck(t)
    \/ \E t \in Threads : CtorApply(t)
    \/ \E t \in Threads : CtorRelease(t)

SpecConc == Init /\ [][NextConc]_vars

----------------------------------------------------------------------------
(* Properties *)

\* the handles held by the ServiceReference objects of the program
Live == {i \in Slots : Exists(slots[i])}

\* the registration a valid handle relates to declares the id
Declares(h, id) == h.reg # NullReg /\ id \in regs[h.reg].ifaces

\* C1: the converting constructor Reference<S>(h) copies h when h is already
\* bound to the id of S, rebinds the id and keeps the registration (so the
\* result equals h) when the registration declares the id of S, and yields
\* the invalid handle otherwise.
C1_ConvertingConstructor ==
    \A i \in Live : \A S \in TypedTags :
        LET h == Base(slots[i])
            r == Reference(S, h)
        IN  /\ r.tag = S
            /\ GetInterfaceId(h) = InterfaceId(S) => Base(r) = h
            /\ (GetInterfaceId(h) # InterfaceId(S) /\ Declares(h, InterfaceId(S)))
                   => /\ r.reg = h.reg
                      /\ TypedEquals(r, slots[i])
                      /\ r.iid = InterfaceId(S)
                      /\ TypedValid(r)
            /\ (GetInterfaceId(h) # InterfaceId(S) /\ ~Declares(h, InterfaceId(S)))
                   => /\ ~TypedValid(r)
                      /\ Base(r) = InvalidHandle

\* a handle bound to IFoo of a registration under {IFoo, IBar} sits next to its
\* valid conversion to Reference<Bar>
C1_Witness ==
    \E i, j \in Live :
        /\ slots[i].iid = "IFoo"
        /\ TypedValid(slots[i])
        /\ regs[slots[i].reg].ifaces = {"IFoo", "IBar"}
        /\ slots[j] = Reference("Bar", Base(slots[i]))
        /\ slots[j].iid = "IBar"
        /\ Reference("Baz", Base(slots[i])) = DefaultCtor("Baz")

\* C2: every valid ServiceReference<S> with S other than void is bound to
\* the interface id of S.
C2_TypedIdInvariant ==
    \A i \in Live :
        (slots[i].tag # Void /\ TypedValid(slots[i]))
            => slots[i].iid = InterfaceId(slots[i].tag)

\* C3: two valid handles are equal exactly when they relate to the same
\* registration, whatever their views and bound ids; handles of different
\* registrations of one service object are unequal.
C3_EqualityIsEntryIdentity ==
    \A i, j \in Live :
        (TypedValid(slots[i]) /\ TypedValid(slots[j]))
            => /\ TypedEquals(slots[i], slots[j]) <=> (slots[i].reg = slots[j].reg)
               /\ (slots[i].reg # slots[j].reg
                   /\ regs[slots[i].reg].obj = regs[slots[j].reg].obj)
                      => ~TypedEquals(slots[i], slots[j])

\* two valid handles of one registration, of different views and bound to
\* different ids, compare equal
C3_Witness ==
    \E i, j \in Live :
        /\ TypedValid(slots[i])
        /\ slots[i].reg = slots[j].reg
        /\ slots[i].tag = "Foo" /\ slots[i].iid = "IFoo"
        /\ slots[j].tag = "Bar" /\ slots[j].iid = "IBar"
        /\ TypedEquals(slots[i], slots[j])

\* C4: equal handles hash equally, through Hash() and through std::hash, and
\* the conversions of one handle to two interface views hash equally.
C4_HashIsEntryIdentity ==
    /\ \A i, j \in Live :
           TypedEquals(slots[i], slots[j])
               => /\ TypedHash(slots[i]) = TypedHash(slots[j])
                  /\ StdHash(slots[i]) = StdHash(slots[j])
    /\ \A i \in Live : \A A, B \in TypedTags :
           LET a == Reference(A, Base(slots[i]))
               b == Reference(B, Base(slots[i]))
           IN  (TypedValid(a) /\ TypedValid(b))
                   => /\ TypedHash(a) = TypedHash(b)
                      /\ StdHash(a) = StdHash(b)

\* a Reference<Foo> and a Reference<Bar> of one registration with equal hashes
C4_Witness ==
    \E i, j \in Live :
        /\ TypedValid(slots[i])
        /\ slots[i].reg = slots[j].reg
        /\ slots[i].tag = "Foo" /\ slots[i].iid = "IFoo"
        /\ slots[j] = Reference("Bar", Base(slots[i]))
        /\ slots[j].iid = "IBar"
        /\ StdHash(slots[i]) = StdHash(slots[j])

\* C5: ServiceReferenceFromService<T,U>(obj) is valid and equal to the untyped
\* lookup result when obj is tracked and its registration declares the id of
\* U, and is an invalid Reference<U> otherwise.
C5_TypedReverseLookup ==
    \A obj \in Objs : \A U \in TypedTags :
        LET u == ServiceReferenceFromServiceU(obj)
            t == ServiceReferenceFromService(obj, U)
        IN  /\ t = Reference(U, Base(u))
            /\ (TypedValid(u) /\ InterfaceId(U) \in regs[u.reg].ifaces)
                   => /\ TypedValid(t)
                      /\ TypedEquals(t, u)
                      /\ t.iid = InterfaceId(U)
            /\ (TypedValid(u) /\ InterfaceId(U) \notin regs[u.reg].ifaces)
                   => ~TypedValid(t)
            /\ ~TypedValid(u) => ~TypedValid(t)

\* a variable holds the valid typed lookup of a tracked object whose own handle
\* is bound to another id, and the lookup under an undeclared id is invalid
C5_Witness ==
    \E i \in Live : \E obj \in Objs :
        /\ Tracked(obj).iid = "IFoo"
        /\ slots[i] = ServiceReferenceFromService(obj, "Bar")
        /\ TypedValid(slots[i])
        /\ ~TypedValid(ServiceReferenceFromService(obj, "Baz"))

\* C6: a step that does not operate on the handle objects - unregistration in
\* particular - changes neither their validity, nor their equality, nor
\* their hash.
C6_UnregistrationKeepsHandles ==
    [][\A i, j \in Slots :
          (Exists(slots[i]) /\ Exists(slots[j])
           /\ slots'[i] = slots[i] /\ slots'[j] = slots[j])
              => /\ TypedValid(slots[i])' = TypedValid(slots[i])
                 /\ TypedEquals(slots[i], slots[j])' = TypedEquals(slots[i], slots[j])
                 /\ TypedHash(slots[i])' = TypedHash(slots[i])
                 /\ StdHash(slots[i])' = StdHash(slots[i])]_vars

\* a handle of an unregistered registration is valid and equal to the other
\* handle of that registration
C6_Witness ==
    \E i, j \in Live :
        /\ i # j
        /\ slots[i].reg # NullReg
        /\ regs[slots[i].reg].state = "unregistered"
        /\ TypedValid(slots[i])
        /\ TypedEquals(slots[i], slots[j])

\* the state Bound(entry, id) of a ServiceReference<S>: valid and, unless S is
\* void, bound to the interface id of S
Bound(t) == TypedValid(t) /\ (t.tag = Void \/ t.iid = InterfaceId(t.tag))

C9_VoidConversionUnchanged ==
    \A i \in Live :
        LET h == Base(slots[i])
            r == Reference(Void, h)
        IN  /\ r.tag = Void
            /\ r.reg = h.reg
            /\ r.iid = h.iid
            /\ TypedValid(r) = IsValid(h)

\* a valid Reference<Bar> sits next to its conversion to ServiceReferenceU
C9_Witness ==
    \E i, j \in Live :
        /\ slots[i].tag = "Bar"
        /\ TypedValid(slots[i])
        /\ slots[j] = Reference(Void, Base(slots[i]))
        /\ slots[j].iid = "IBar"

Asked == {t \in Threads : obs[t] # "none"}

\* C8: every conversion of the published handle to an interface its
\* registration declares ends with a valid handle of that registration bound
\* to that interface, whatever the other threads and the registry do
\* meanwhile, and all conversions to one interface get the same answer from
\* IsConvertibleTo.
C8_PublishedHandleConverts ==
    /\ \A t \in Threads :
           (pc[t] = "done" /\ want[t] \in regs[published.reg].ifaces)
               => /\ IsValid(local[t])
                  /\ local[t].reg = published.reg
                  /\ GetInterfaceId(local[t]) = want[t]
    /\ \A t \in Threads :
           (pc[t] = "done" /\ want[t] \notin regs[published.reg].ifaces)
               => ~IsValid(local[t])
    /\ \A t, u \in Asked : want[t] = want[u] => obs[t] = obs[u]

\* both threads have converted the handle bound to IFoo of a registration
\* under {IFoo, IBar} to Reference<Bar>, while another registration was
\* unregistered
C8_Witness ==
    /\ published.reg # NullReg
    /\ published.iid = "IFoo"
    /\ regs[published.reg].ifaces = {"IFoo", "IBar"}
    /\ \E e \in Entries : e # published.reg /\ regs[e].state = "unregistered"
    /\ \A t \in Threads :
           /\ pc[t] = "done"
           /\ want[t] = "IBar"
           /\ obs[t] = "yes"
           /\ local[t] = MakeHandle(published.reg, "IBar")

====
